---- MODULE Spec2Model ----
(***************************************************************************)
(* Streaming PutObject request of mountpoint-s3-client                     *)
(* (s3_crt_client/put_object.rs): the S3PutObjectRequest state machine,    *)
(* the CreateMultipartUpload readiness channel with its two racing         *)
(* callbacks, the ReviewCallbackBox, the response-headers channel and the  *)
(* completion path.  The CRT meta-request is the environment.              *)
(***************************************************************************)
EXTENDS Integers, Sequences, FiniteSets, TLC

(* ------------------------------ bounds -------------------------------- *)
\* longest slice handed to one write call
MaxLen == 2
\* number of write calls issued on one request
MaxWrites == 2
\* number of successful CreateMultipartUpload sub-requests reported
MaxCreated == 1
\* number of times the meta-request result (failure) callback is run
MaxFailures == 1
\* number of times the on_headers callback is run
MaxHeaders == 2
\* number of meta-request writes that consume nothing of a non-empty slice
MaxStalls == 1
\* number of set/invoke calls made on a stand-alone ReviewCallbackBox
MaxGateOps == 4

(* ------------------------------ values -------------------------------- *)
\* S3RequestError values that reach the caller
RequestCanceled == [kind |-> "RequestCanceled", code |-> "-"]
CrtError(c) == [kind |-> "CrtError", code |-> c]
InternalError == [kind |-> "InternalError", code |-> "-"]

\* error codes a failing meta-request reports through its result callback;
\* the code under study never inspects a code, so the n-th run of the
\* callback reports a code of its own
ErrorCode(n) == "E" \o ToString(n)
FailureCodes == { ErrorCode(n) : n \in 1..MaxFailures }
\* error code of a meta-request write issued after the request has finished
FinishedCode == "FINISHED"

NoneR == [tag |-> "None"]
Pending == [tag |-> "Pending"]
Dropped == [tag |-> "Dropped"]
Ok(v) == [tag |-> "Ok", val |-> v]
Err(e) == [tag |-> "Err", err |-> e]
Unit == "()"

\* sub-request types reported by the telemetry callback
RequestTypes == {"CreateMultipartUpload", "UploadPart"}

\* a header of the response: absent, present but not a valid string, or a value
Absent == "<absent>"
Invalid == "<invalid>"
ResponseHeaders ==
    { [etag |-> "e1", sse |-> Absent, key |-> Absent],
      [etag |-> "e2", sse |-> "aws:kms", key |-> "k1"],
      [etag |-> Absent, sse |-> "aws:kms", key |-> Absent],
      [etag |-> Invalid, sse |-> Absent, key |-> Absent],
      [etag |-> "e1", sse |-> Invalid, key |-> Absent] }

\* the data the meta-request hands to the upload review callback
UploadReviews == {0, 1}
\* review callbacks a caller can pass: FnOnce(UploadReview) -> bool
ReviewCallbacks == {"accept", "reject", "check"}
Call(callback, review) ==
    CASE callback = "accept" -> TRUE
      [] callback = "reject" -> FALSE
      [] callback = "check" -> review = 1

VARIABLES
    state,                    \* S3PutObjectRequest.state
    total_bytes,              \* S3PutObjectRequest.total_bytes
    pc,                       \* where the caller's current future is suspended
    slice,                    \* the unwritten suffix inside write's loop
    mpu_created,              \* value held by the readiness oneshot channel
    on_mpu_created_sender,    \* the shared Mutex<Option<Sender>>: TRUE = Some
    rx,                       \* the readiness Receiver: held, awaited, taken, dropped
    review_callback,          \* ReviewCallbackBox.callback
    panicked,                 \* an assert! of ReviewCallbackBox::set failed
    gateLog,                  \* one record per ReviewCallbackBox call
    response_headers,         \* value held by the response-headers channel
    response_headers_sender,  \* Option<Sender> captured by on_headers: TRUE = Some
    meta_request,             \* the meta-request: active, failed, succeeded
    eos,                      \* the meta-request received write(&[], true)
    review,                   \* result of the upload review run by the meta-request
    delivered,                \* bytes the meta-request accepted, in order
    stalls,                   \* meta-request writes that consumed nothing
    created,                  \* successful CreateMultipartUpload reports
    failures,                 \* result (failure) callbacks run
    headerCalls,              \* on_headers callbacks run
    nWrites,                  \* write calls made
    lastWrite,                \* record of the most recent write call
    okBytes,                  \* total length of the slices of writes that returned Ok
    badWrites,                \* write calls that returned an error or were dropped
    nextByte,                 \* identity of the next byte the caller submits
    firstSignal,              \* which readiness producer ran first
    readyResult,              \* what the first write received from the channel
    samples,                  \* throughput samples emitted
    compLog,                  \* the review_and_complete call, if any
    trailing_checksums,       \* PutObjectParams.trailing_checksums
    checksum_config,          \* the ChecksumConfig set on the request message
    sent,                     \* one record per Sender::send on the readiness channel
    dropLog,                  \* the counters at the moment a write future was dropped
    headersSeen               \* the first headers given to on_headers, and whether
                              \* a later call gave different ones

sessVars == <<state, total_bytes, pc, slice>>
readyVars == <<mpu_created, on_mpu_created_sender, rx>>
gateVars == <<review_callback, panicked, gateLog>>
hdrVars == <<response_headers, response_headers_sender>>
crtVars == <<meta_request, eos, review, delivered, stalls>>
envVars == <<created, failures, headerCalls>>
histVars == <<nWrites, lastWrite, okBytes, badWrites, nextByte, firstSignal, readyResult, samples, compLog>>
msgVars == <<trailing_checksums, checksum_config>>
logVars == <<sent, dropLog, headersSeen>>
vars == <<sessVars, readyVars, gateVars, hdrVars, crtVars, envVars, histVars, msgVars, logVars>>

(* ------------------------- ReviewCallbackBox --------------------------- *)
NoCallback == "<none>"

\* ReviewCallbackBox::set: replace the stored callback, then assert that
\* nothing was stored before
\* a set that leaves the box as it was
ReviewCallbackBox_set_NoStore(box, callback) ==
    [callback |-> box, panic |-> box # NoCallback]

\* a set that replaces the stored callback without complaint
ReviewCallbackBox_set_NoAssert(box, callback) ==
    [callback |-> callback, panic |-> FALSE]

ReviewCallbackBox_set(box, callback) ==
    [callback |-> callback, panic |-> box # NoCallback]

\* an invoke that reads the stored callback without taking it
ReviewCallbackBox_invoke_NoTake(box, r) ==
    IF box = NoCallback
    THEN [callback |-> box, called |-> FALSE, result |-> FALSE]
    ELSE [callback |-> box, called |-> TRUE, result |-> Call(box, r)]

\* an invoke that calls the stored callback and discards its answer
ReviewCallbackBox_invoke_Accept(box, r) ==
    IF box = NoCallback
    THEN [callback |-> NoCallback, called |-> FALSE, result |-> FALSE]
    ELSE [callback |-> NoCallback, called |-> TRUE, result |-> TRUE]

\* ReviewCallbackBox::invoke: take the stored callback; with nothing stored
\* log an error and return false, otherwise call it on the review
ReviewCallbackBox_invoke(box, r) ==
    IF box = NoCallback
    THEN [callback |-> NoCallback, called |-> FALSE, result |-> FALSE]
    ELSE [callback |-> NoCallback, called |-> TRUE, result |-> Call(box, r)]

SetEntry(box, callback, out) ==
    [op |-> "set", stored |-> box, arg |-> callback, called |-> FALSE,
     result |-> ~out.panic]
InvokeEntry(box, r, out) ==
    [op |-> "invoke", stored |-> box, arg |-> r, called |-> out.called,
     result |-> out.result]

(* --------------------------- response headers -------------------------- *)
\* Headers::get_as_string: the header must be present and a valid string
get_as_string(h) == IF h \in {Absent, Invalid} THEN Err("HeadersError") ELSE Ok(h)
\* Headers::get_as_optional_string: a missing header is Ok(None)
get_as_optional_string(h) == IF h = Invalid THEN Err("HeadersError") ELSE Ok(h)

\* an ETag that falls back to the empty string when the header is unusable
get_etag_Default(headers) ==
    Ok(IF headers.etag \in {Absent, Invalid} THEN "" ELSE headers.etag)

get_etag(headers) == get_as_string(headers.etag)

extract_result(headers) ==
    LET etag == get_etag(headers)
        sse_type == get_as_optional_string(headers.sse)
        sse_kms_key_id == get_as_optional_string(headers.key)
    IN  IF etag.tag = "Err" \/ sse_type.tag = "Err" \/ sse_kms_key_id.tag = "Err"
        THEN Err(InternalError)
        ELSE Ok([etag |-> etag.val, sse_type |-> sse_type.val,
                 sse_kms_key_id |-> sse_kms_key_id.val])

(* ------------------------------- helpers ------------------------------- *)
Last(s) == s[Len(s)]
SetLast(s, e) == [s EXCEPT ![Len(s)] = e]
Suffix(s, k) == SubSeq(s, k + 1, Len(s))
Prefix(s, k) == SubSeq(s, 1, k)

\* the readiness Receiver still exists, so Sender::send delivers
ReceiverAlive == rx \in {"held", "awaited"}

(* ------------------------------ put_object ----------------------------- *)
\* PutObjectTrailingChecksums
ChecksumPolicies == {"Enabled", "ReviewOnly", "Disabled"}

\* a match whose ReviewOnly arm builds the trailing configuration
ChecksumConfigFor_ReviewAsTrailing(policy) ==
    CASE policy \in {"Enabled", "ReviewOnly"} -> Ok("trailing_crc32c")
      [] policy = "Disabled" -> NoneR

\* the match on params.trailing_checksums: the Option<ChecksumConfig> given to
\* message.set_checksum_config
ChecksumConfigFor(policy) ==
    CASE policy = "Enabled" -> Ok("trailing_crc32c")
      [] policy = "ReviewOnly" -> Ok("upload_review_crc32c")
      [] policy = "Disabled" -> NoneR

\* S3CrtClient::put_object returned Ok(S3PutObjectRequest { .. }) for a call
\* with params.trailing_checksums = policy
PutObject(policy) ==
    /\ trailing_checksums = policy
    /\ checksum_config = ChecksumConfigFor(policy)
    /\ state = "CreatingMPU"
    /\ total_bytes = 0
    /\ pc = "idle"
    /\ slice = <<>>
    /\ mpu_created = NoneR
    /\ on_mpu_created_sender = TRUE
    /\ rx = "held"
    /\ review_callback = NoCallback
    /\ panicked = FALSE
    /\ gateLog = <<>>
    /\ response_headers = NoneR
    /\ response_headers_sender = TRUE
    /\ meta_request = [status |-> "active", error |-> "-"]
    /\ eos = FALSE
    /\ review = "none"
    /\ delivered = <<>>
    /\ stalls = 0
    /\ created = 0
    /\ failures = 0
    /\ headerCalls = 0
    /\ nWrites = 0
    /\ lastWrite = NoneR
    /\ okBytes = 0
    /\ badWrites = 0
    /\ nextByte = 1
    /\ firstSignal = [kind |-> "none", code |-> "-"]
    /\ readyResult = NoneR
    /\ samples = <<>>
    /\ compLog = NoneR
    /\ sent = <<>>
    /\ dropLog = NoneR
    /\ headersSeen = NoneR

\* a request made with trailing checksums enabled
Init == PutObject("Enabled")

\* a request made with any PutObjectParams.trailing_checksums
PolicyInit == \E policy \in ChecksumPolicies : PutObject(policy)

(* ----------------------- the meta-request (CRT) ------------------------ *)
\* when the meta-request runs each callback
CrtMayReportTelemetry(type, failed) ==
    /\ meta_request.status # "succeeded"
    /\ (type = "CreateMultipartUpload" /\ ~failed) => created < MaxCreated
CrtMayFail == failures < MaxFailures /\ meta_request.status # "succeeded"
CrtMayReview == eos /\ meta_request.status = "active" /\ review = "none"
CrtMayDeliverHeaders ==
    headerCalls < MaxHeaders /\ meta_request.status = "active" /\ review = "accepted"
CrtMayFinish ==
    meta_request.status = "active" /\ eos /\ review = "accepted" /\ headerCalls > 0

\* MetaRequest::write(slice, false): the numbers of bytes it may consume, or
\* an error when the request has already finished
CrtWriteFails == meta_request.status # "active"
CrtWriteAccepts(s) == { k \in 0..Len(s) : k = 0 => stalls < MaxStalls }

(* --------------------------- S3PutObjectRequest ------------------------ *)
NewEntry(observed, len) ==
    [observed |-> observed, len |-> len, res |-> Pending, prims |-> 0,
     bytesBefore |-> total_bytes, bytesAfter |-> total_bytes,
     prev |-> IF lastWrite = NoneR THEN NoneR ELSE lastWrite.res]
Finish(entry, res, bytes) == [entry EXCEPT !.res = res, !.bytesAfter = bytes]

\* a write that does not reject an interrupted predecessor
WriteGuard_NoCancel(observed) ==
    IF observed = "CreatingMPU" THEN "await" ELSE "proceed"

\* the match on the replaced state at the head of write
WriteGuard(observed) ==
    CASE observed = "CreatingMPU" -> "await"
      [] observed = "PendingWrite" -> "cancel"
      [] observed = "Idle" -> "proceed"

\* a write that does not store Idle when its loop ends
AfterWrite_PendingWrite == "PendingWrite"

\* the state a write leaves behind when its loop ends without error
AfterWrite == "Idle"

\* a loop that tests its condition only after the first iteration
LoopEntered_Always(s) == TRUE

\* while !slice.is_empty()
LoopEntered(s) == s # <<>>

\* a write that resets the state when it returns an error
AfterFailedWrite_Idle == "Idle"

\* a write that puts the session back to its initial state when it returns an
\* error
AfterFailedWrite_CreatingMPU == "CreatingMPU"

\* the state a write leaves behind when it returns an error through `?`:
\* the PendingWrite stored at its head
AfterFailedWrite == "PendingWrite"

\* write, from its call to its first suspension point or return
Write(len) ==
    LET bytes == [i \in 1..len |-> nextByte + i - 1]
        entry == NewEntry(state, len)
        guard == WriteGuard(state)
    IN  /\ pc = "idle"
        /\ nWrites < MaxWrites
        /\ nWrites' = nWrites + 1
        /\ nextByte' = nextByte + len
        /\ total_bytes' = total_bytes
        /\ CASE guard = "await" ->
                  /\ state' = "PendingWrite"
                  /\ pc' = "write_await"
                  /\ rx' = "awaited"
                  /\ slice' = bytes
                  /\ lastWrite' = entry
                  /\ UNCHANGED <<okBytes, badWrites>>
             [] guard = "cancel" ->
                  /\ state' = "PendingWrite"
                  /\ pc' = "idle"
                  /\ rx' = rx
                  /\ slice' = <<>>
                  /\ lastWrite' = Finish(entry, Err(RequestCanceled), total_bytes)
                  /\ badWrites' = badWrites + 1
                  /\ okBytes' = okBytes
             [] guard = "proceed" /\ ~LoopEntered(bytes) ->
                  /\ state' = AfterWrite
                  /\ pc' = "idle"
                  /\ rx' = rx
                  /\ slice' = <<>>
                  /\ lastWrite' = Finish(entry, Ok(Unit), total_bytes)
                  /\ UNCHANGED <<okBytes, badWrites>>
             [] guard = "proceed" /\ LoopEntered(bytes) ->
                  /\ state' = "PendingWrite"
                  /\ pc' = "write_loop"
                  /\ rx' = rx
                  /\ slice' = bytes
                  /\ lastWrite' = entry
                  /\ UNCHANGED <<okBytes, badWrites>>
        /\ UNCHANGED <<mpu_created, on_mpu_created_sender, gateVars, hdrVars, crtVars,
                       envVars, firstSignal, readyResult, samples, compLog, msgVars,
                       logVars>>

\* create_mpu.await.unwrap()? resumes with the value sent on the channel
WriteReady ==
    /\ pc = "write_await"
    /\ mpu_created # NoneR
    /\ rx' = "taken"
    /\ readyResult' = mpu_created
    /\ IF mpu_created.tag = "Err"
       THEN /\ pc' = "idle"
            /\ slice' = <<>>
            /\ state' = AfterFailedWrite
            /\ lastWrite' = Finish(lastWrite, mpu_created, total_bytes)
            /\ badWrites' = badWrites + 1
            /\ okBytes' = okBytes
       ELSE IF ~LoopEntered(slice)
       THEN /\ pc' = "idle"
            /\ slice' = <<>>
            /\ state' = AfterWrite
            /\ lastWrite' = Finish(lastWrite, Ok(Unit), total_bytes)
            /\ UNCHANGED <<okBytes, badWrites>>
       ELSE /\ pc' = "write_loop"
            /\ UNCHANGED <<slice, state, lastWrite, okBytes, badWrites>>
    /\ UNCHANGED <<total_bytes, mpu_created, on_mpu_created_sender, gateVars, hdrVars,
                   crtVars, envVars, nWrites, nextByte, firstSignal, samples, compLog,
                   msgVars, logVars>>

\* a loop that submits the same slice again
NextSlice_Resubmit(s, remaining) == s

\* slice = remaining: what the next iteration of the loop submits
NextSlice(s, remaining) == remaining

\* a write that takes back what it counted when it returns an error
CounterOnError_Rollback(entry) == entry.bytesBefore

\* total_bytes when meta_request.write returns an error through `?`: what the
\* earlier iterations added stays
CounterOnError(entry) == total_bytes

\* a drop that resets the state
AfterDroppedWrite_Idle == "Idle"

\* the state when the future of write is dropped at an await: nothing runs
\* after the mem::replace at its head
AfterDroppedWrite == state

\* a counter that adds the whole submitted suffix on every iteration
Accumulate_WholeSlice(total, s, remaining) == total + Len(s)

\* the byte counter after the meta-request returned `remaining` for `s`
Accumulate(total, s, remaining) == total + (Len(s) - Len(remaining))

\* one iteration of the loop: meta_request.write(slice, false).await
WriteStep ==
    /\ pc = "write_loop"
    /\ LET entry == [lastWrite EXCEPT !.prims = @ + 1]
       IN  IF CrtWriteFails
           THEN /\ pc' = "idle"
                /\ slice' = <<>>
                /\ lastWrite' = Finish(entry, Err(CrtError(FinishedCode)),
                                       CounterOnError(entry))
                /\ badWrites' = badWrites + 1
                /\ state' = AfterFailedWrite
                /\ total_bytes' = CounterOnError(entry)
                /\ UNCHANGED <<delivered, stalls, okBytes>>
           ELSE \E k \in CrtWriteAccepts(slice) :
                LET remaining == Suffix(slice, k)
                    total == Accumulate(total_bytes, slice, remaining)
                    next == NextSlice(slice, remaining)
                IN  /\ delivered' = delivered \o Prefix(slice, k)
                    /\ stalls' = IF k = 0 THEN stalls + 1 ELSE stalls
                    /\ total_bytes' = total
                    /\ slice' = next
                    /\ badWrites' = badWrites
                    /\ okBytes' = IF next = <<>> THEN okBytes + entry.len ELSE okBytes
                    /\ IF next = <<>>
                       THEN /\ state' = AfterWrite
                            /\ pc' = "idle"
                            /\ lastWrite' = Finish(entry, Ok(Unit), total)
                       ELSE /\ state' = state
                            /\ pc' = pc
                            /\ lastWrite' = [entry EXCEPT !.bytesAfter = total]
    /\ UNCHANGED <<readyVars, gateVars, hdrVars, meta_request, eos, review, envVars,
                   nWrites, nextByte, firstSignal, readyResult, samples, compLog,
                   msgVars, logVars>>

\* the caller drops the future of a write that has not completed
DropWrite ==
    /\ pc \in {"write_await", "write_loop"}
    /\ pc' = "idle"
    /\ slice' = <<>>
    /\ rx' = IF pc = "write_await" THEN "dropped" ELSE rx
    /\ lastWrite' = Finish(lastWrite, Dropped, total_bytes)
    /\ dropLog' = [total |-> total_bytes, delivered |-> delivered]
    /\ badWrites' = badWrites + 1
    /\ okBytes' = okBytes
    /\ state' = AfterDroppedWrite
    /\ UNCHANGED <<total_bytes, mpu_created, on_mpu_created_sender, gateVars,
                   hdrVars, crtVars, envVars, nWrites, nextByte, firstSignal,
                   readyResult, samples, compLog, msgVars, sent, headersSeen>>

(* --------------------- callbacks given to the CRT ---------------------- *)
\* the first readiness producer to run, for the record
NoteSignal(kind, code) ==
    IF firstSignal.kind = "none" THEN [kind |-> kind, code |-> code] ELSE firstSignal

\* Sender::send on the readiness channel: delivers unless the Receiver is gone
Send(value) == IF ReceiverAlive THEN value ELSE mpu_created

\* the condition under which the telemetry callback signals the channel
\* a test that forgets the error of the request
MpuCreated_AnyResult(type, failed) == type = "CreateMultipartUpload"

MpuCreated(type, failed) == type = "CreateMultipartUpload" /\ ~failed

\* a telemetry callback that sends without taking the sender from the slot
OnMpuCreatedSend_Overwrite(type, failed) ==
    IF MpuCreated(type, failed)
    THEN [sender |-> FALSE, value |-> Send(Ok(Unit)), sent |-> <<Ok(Unit)>>]
    ELSE [sender |-> on_mpu_created_sender, value |-> mpu_created, sent |-> <<>>]

\* what the telemetry callback does with the shared sender slot
OnMpuCreatedSend(type, failed) ==
    IF MpuCreated(type, failed) /\ on_mpu_created_sender
    THEN [sender |-> FALSE, value |-> Send(Ok(Unit)), sent |-> <<Ok(Unit)>>]
    ELSE [sender |-> on_mpu_created_sender, value |-> mpu_created, sent |-> <<>>]

\* the telemetry callback of put_object, run for one finished sub-request
OnTelemetry(type, failed) ==
    /\ CrtMayReportTelemetry(type, failed)
    /\ on_mpu_created_sender' = OnMpuCreatedSend(type, failed).sender
    /\ mpu_created' = OnMpuCreatedSend(type, failed).value
    /\ sent' = sent \o [i \in 1..Len(OnMpuCreatedSend(type, failed).sent) |->
                          [by |-> "telemetry", type |-> type, failed |-> failed,
                           value |-> OnMpuCreatedSend(type, failed).sent[i]]]
    /\ IF type = "CreateMultipartUpload" /\ ~failed
       THEN /\ created' = created + 1
            /\ firstSignal' = NoteSignal("created", "-")
       ELSE UNCHANGED <<created, firstSignal>>
    /\ UNCHANGED <<sessVars, rx, gateVars, hdrVars, crtVars, failures, headerCalls,
                   nWrites, lastWrite, okBytes, badWrites, nextByte, readyResult,
                   samples, compLog, msgVars, dropLog, headersSeen>>

\* a result callback that sends without taking the sender from the slot
OnErrorSend_Overwrite(code) ==
    [sender |-> FALSE, value |-> Send(Err(CrtError(code))),
     sent |-> <<Err(CrtError(code))>>]

\* a result callback that takes the sender and drops it without sending
OnErrorSend_NoSend(code) ==
    [sender |-> FALSE, value |-> mpu_created, sent |-> <<>>]

\* what the result callback does with the shared sender slot
OnErrorSend(code) ==
    IF on_mpu_created_sender
    THEN [sender |-> FALSE, value |-> Send(Err(CrtError(code))),
          sent |-> <<Err(CrtError(code))>>]
    ELSE [sender |-> on_mpu_created_sender, value |-> mpu_created, sent |-> <<>>]

\* the meta-request result callback of put_object, run for a failed request
OnMetaRequestResult(code) ==
    /\ CrtMayFail
    /\ failures' = failures + 1
    /\ meta_request' = IF meta_request.status = "failed" THEN meta_request
                       ELSE [status |-> "failed", error |-> code]
    /\ firstSignal' = NoteSignal("failed", code)
    /\ on_mpu_created_sender' = OnErrorSend(code).sender
    /\ mpu_created' = OnErrorSend(code).value
    /\ sent' = sent \o [i \in 1..Len(OnErrorSend(code).sent) |->
                          [by |-> "result", type |-> "-", failed |-> TRUE,
                           value |-> OnErrorSend(code).sent[i]]]
    /\ UNCHANGED <<sessVars, rx, gateVars, hdrVars, eos, review, delivered, stalls,
                   created, headerCalls, nWrites, lastWrite, okBytes, badWrites,
                   nextByte, readyResult, samples, compLog, msgVars, dropLog,
                   headersSeen>>

\* what on_headers leaves in the channel and in its captured Option<Sender>
\* a handler that sends on every invocation
HeadersSend_Overwrite(headers) ==
    [sender |-> FALSE, value |-> Ok(headers)]

HeadersSend(headers) ==
    IF response_headers_sender
    THEN [sender |-> FALSE, value |-> Ok(headers)]
    ELSE [sender |-> response_headers_sender, value |-> response_headers]

\* the on_headers callback made by response_headers_handler
OnHeaders(headers) ==
    /\ CrtMayDeliverHeaders
    /\ headerCalls' = headerCalls + 1
    /\ response_headers_sender' = HeadersSend(headers).sender
    /\ response_headers' = HeadersSend(headers).value
    /\ headersSeen' = IF headersSeen = NoneR
                      THEN [first |-> headers, differs |-> FALSE]
                      ELSE [headersSeen EXCEPT
                                !.differs = @ \/ headers # headersSeen.first]
    /\ UNCHANGED <<sessVars, readyVars, gateVars, crtVars, created, failures, histVars,
                   msgVars, sent, dropLog>>

\* the on_upload_review callback: callback.invoke(review)
OnUploadReview(r) ==
    /\ CrtMayReview
    /\ LET out == ReviewCallbackBox_invoke(review_callback, r)
       IN  /\ review_callback' = out.callback
           /\ gateLog' = Append(gateLog, InvokeEntry(review_callback, r, out))
           /\ review' = IF out.result THEN "accepted" ELSE "rejected"
    /\ UNCHANGED <<sessVars, readyVars, panicked, hdrVars, meta_request, eos, delivered,
                   stalls, envVars, histVars, msgVars, logVars>>

\* the meta-request finishes successfully
CrtFinish ==
    /\ CrtMayFinish
    /\ meta_request' = [status |-> "succeeded", error |-> "-"]
    /\ UNCHANGED <<sessVars, readyVars, gateVars, hdrVars, eos, review, delivered,
                   stalls, envVars, histVars, msgVars, logVars>>

(* ------------------------- review_and_complete ------------------------- *)
\* the request is dropped when review_and_complete returns
DropRequest == IF rx = "held" THEN "dropped" ELSE rx

\* a review_and_complete without the check
CompleteGuard_Never(observed) == "proceed"

\* a check that also refuses a session on which nothing was written
CompleteGuard_NeedsWrite(observed) ==
    IF observed \in {"PendingWrite", "CreatingMPU"} THEN "cancel" ELSE "proceed"

\* the check on the state at the head of review_and_complete
CompleteGuard(observed) == IF observed = "PendingWrite" THEN "cancel" ELSE "proceed"

\* review_and_complete, from its call to its first suspension point or return
ReviewAndComplete(via, callback) ==
    LET entry == [via |-> via, observed |-> state, callback |-> callback,
                  res |-> Pending, finalWrites |-> 0]
        out == ReviewCallbackBox_set(review_callback, callback)
    IN  /\ pc = "idle"
        /\ compLog = NoneR
        /\ IF CompleteGuard(state) = "cancel"
           THEN /\ pc' = "done"
                /\ rx' = DropRequest
                /\ compLog' = [entry EXCEPT !.res = Err(RequestCanceled)]
                /\ UNCHANGED gateVars
           ELSE /\ review_callback' = out.callback
                /\ gateLog' = Append(gateLog, SetEntry(review_callback, callback, out))
                /\ panicked' = out.panic
                /\ pc' = IF out.panic THEN "done" ELSE "complete_eos"
                /\ rx' = IF out.panic THEN DropRequest ELSE rx
                /\ compLog' = entry
        /\ UNCHANGED <<state, total_bytes, slice, mpu_created, on_mpu_created_sender,
                       hdrVars, crtVars, envVars, nWrites, lastWrite, okBytes, badWrites,
                       nextByte, firstSignal, readyResult, samples, msgVars, logVars>>

\* complete: review_and_complete with a callback that always accepts
Complete == ReviewAndComplete("complete", "accept")

\* meta_request.write(&[], true).await
CompleteEos ==
    /\ pc = "complete_eos"
    /\ IF CrtWriteFails
       THEN /\ pc' = "done"
            /\ rx' = DropRequest
            /\ eos' = eos
            /\ compLog' = [compLog EXCEPT !.res = Err(CrtError(FinishedCode)),
                                          !.finalWrites = @ + 1]
       ELSE /\ pc' = "complete_body"
            /\ rx' = rx
            /\ eos' = TRUE
            /\ compLog' = [compLog EXCEPT !.finalWrites = @ + 1]
    /\ UNCHANGED <<state, total_bytes, slice, mpu_created, on_mpu_created_sender,
                   gateVars, hdrVars, meta_request, review, delivered, stalls, envVars,
                   nWrites, lastWrite, okBytes, badWrites, nextByte, firstSignal,
                   readyResult, samples, msgVars, logVars>>

\* the throughput sample of a finished put_object
Sample == [bytes |-> total_bytes, op |-> "put_object"]

\* what review_and_complete does once self.body has resolved with `status`:
\* the samples it has emitted and the value it returns
Finalize(status) ==
    IF status = "failed"
    THEN [samples |-> samples, res |-> Err(CrtError(meta_request.error)), panic |-> FALSE]
    ELSE IF response_headers = NoneR
    THEN [samples |-> Append(samples, Sample), res |-> Pending, panic |-> TRUE]
    ELSE [samples |-> Append(samples, Sample),
          res |-> extract_result(response_headers.val), panic |-> FALSE]

\* self.body.await?, the throughput sample and extract_result
CompleteBody ==
    /\ pc = "complete_body"
    /\ meta_request.status # "active"
    /\ LET out == Finalize(meta_request.status)
       IN  /\ samples' = out.samples
           /\ compLog' = [compLog EXCEPT !.res = out.res]
           /\ panicked' = out.panic
    /\ pc' = "done"
    /\ rx' = DropRequest
    /\ UNCHANGED <<state, total_bytes, slice, mpu_created, on_mpu_created_sender,
                   review_callback, gateLog, hdrVars, crtVars, envVars, nWrites,
                   lastWrite, okBytes, badWrites, nextByte, firstSignal, readyResult,
                   msgVars, logVars>>

(* ----------------------------- the request ----------------------------- *)
Next ==
    \/ \E len \in 0..MaxLen : Write(len)
    \/ WriteReady
    \/ WriteStep
    \/ DropWrite
    \/ \E type \in RequestTypes, failed \in BOOLEAN : OnTelemetry(type, failed)
    \/ \E code \in {ErrorCode(failures + 1)} : OnMetaRequestResult(code)
    \/ \E headers \in ResponseHeaders : OnHeaders(headers)
    \/ \E r \in UploadReviews : OnUploadReview(r)
    \/ CrtFinish
    \/ Complete
    \/ \E callback \in ReviewCallbacks : ReviewAndComplete("review_and_complete", callback)
    \/ CompleteEos
    \/ CompleteBody

Spec == Init /\ [][Next]_vars

\* the same request, made with any checksum policy
PolicySpec == PolicyInit /\ [][Next]_vars

\* the executor polls a write whose readiness channel has been resolved:
\* Sender::send wakes the task that awaits the Receiver
LiveSpec == Spec /\ WF_vars(WriteReady)

\* every meta_request.write(slice, false) the loop of write awaits returns,
\* and the executor then polls the write
LoopSpec == Spec /\ WF_vars(WriteStep)

(* ----------------------- a ReviewCallbackBox alone --------------------- *)
\* set called on the box
BoxSet(callback) ==
    /\ ~panicked
    /\ Len(gateLog) < MaxGateOps
    /\ LET out == ReviewCallbackBox_set(review_callback, callback)
       IN  /\ review_callback' = out.callback
           /\ panicked' = out.panic
           /\ gateLog' = Append(gateLog, SetEntry(review_callback, callback, out))
    /\ UNCHANGED <<sessVars, readyVars, hdrVars, crtVars, envVars, histVars, msgVars,
                   logVars>>

\* invoke called on (a clone of) the box
BoxInvoke(r) ==
    /\ ~panicked
    /\ Len(gateLog) < MaxGateOps
    /\ LET out == ReviewCallbackBox_invoke(review_callback, r)
       IN  /\ review_callback' = out.callback
           /\ gateLog' = Append(gateLog, InvokeEntry(review_callback, r, out))
    /\ UNCHANGED <<sessVars, readyVars, panicked, hdrVars, crtVars, envVars, histVars,
                   msgVars, logVars>>

BoxNext ==
    \/ \E callback \in ReviewCallbacks : BoxSet(callback)
    \/ \E r \in UploadReviews : BoxInvoke(r)

BoxSpec == Init /\ [][BoxNext]_vars

(* ------------------------------- claims -------------------------------- *)
\* C1: a write called while the state is PendingWrite returns RequestCanceled
\* at once, makes no meta-request write and leaves the byte counter alone; a
\* write that is not rejected observed CreatingMPU or Idle.
C1_OverlappingWriteCanceled ==
    [][ nWrites' = nWrites + 1 =>
          IF state = "PendingWrite"
          THEN /\ lastWrite'.res = Err(RequestCanceled)
               /\ lastWrite'.prims = 0
               /\ pc' = "idle"
               /\ delivered' = delivered
               /\ stalls' = stalls
               /\ total_bytes' = total_bytes
          ELSE /\ state \in {"CreatingMPU", "Idle"}
               /\ lastWrite'.res # Err(RequestCanceled) ]_vars

\* a write was dropped before it resolved and the next write was rejected
C1_Witness ==
    /\ lastWrite # NoneR
    /\ lastWrite.observed = "PendingWrite"
    /\ lastWrite.prev = Dropped
    /\ lastWrite.len > 0
    /\ lastWrite.res = Err(RequestCanceled)

\* C2: when a successful CreateMultipartUpload report runs before any result
\* (failure) callback, the readiness channel holds Ok(()) for as long as its
\* receiver exists and the first write receives Ok(()), however many result
\* callbacks run afterwards.
C2_CreatedFirstWins ==
    firstSignal.kind = "created" =>
        /\ ReceiverAlive => mpu_created = Ok(Unit)
        /\ readyResult \in {NoneR, Ok(Unit)}
        /\ rx = "taken" => readyResult = Ok(Unit)
        /\ (lastWrite # NoneR /\ lastWrite.observed = "CreatingMPU"
              /\ lastWrite.res.tag = "Err")
             => lastWrite.prims > 0 /\ lastWrite.res = Err(CrtError(FinishedCode))

\* the result callback ran MaxFailures times after the report, and the first
\* write, waiting on the channel, finds Ok(()) in it
C2_Witness ==
    /\ firstSignal.kind = "created"
    /\ failures = MaxFailures
    /\ pc = "write_await"
    /\ mpu_created = Ok(Unit)

\* C3: when the result (failure) callback runs before any successful
\* CreateMultipartUpload report, the channel keeps that failure, the first
\* write returns exactly it, and no meta-request write is made and no byte
\* counted.
C3_FailureFirstWins ==
    firstSignal.kind = "failed" =>
        /\ ReceiverAlive => mpu_created = Err(CrtError(firstSignal.code))
        /\ readyResult \in {NoneR, Err(CrtError(firstSignal.code))}
        /\ rx = "taken" =>
             /\ readyResult = Err(CrtError(firstSignal.code))
             /\ total_bytes = 0
             /\ delivered = <<>>
             /\ stalls = 0
             /\ lastWrite.prims = 0
             /\ lastWrite.observed = "CreatingMPU"
                  => lastWrite.res = Err(CrtError(firstSignal.code))

\* the failure came first, a successful report came later, and the first
\* write has returned
C3_Witness ==
    /\ firstSignal.kind = "failed"
    /\ created > 0
    /\ failures = MaxFailures
    /\ rx = "taken"
    /\ lastWrite.observed = "CreatingMPU"
    /\ lastWrite.len > 0
    /\ lastWrite.res = Err(CrtError(firstSignal.code))

\* C4: while every write so far returned Ok, bytes_written() is the total
\* length of the submitted slices and the meta-request accepted that many
\* bytes; every throughput sample carries that total.
C4_ByteAccounting ==
    /\ (badWrites = 0 /\ pc \notin {"write_await", "write_loop"}) =>
          /\ total_bytes = okBytes
          /\ okBytes = nextByte - 1
          /\ Len(delivered) = okBytes
    /\ \A i \in 1..Len(samples) : samples[i].bytes = okBytes /\ total_bytes = okBytes

\* MaxWrites writes, the last of them empty, one accepted in pieces after a
\* stall, then a completion that emitted its sample
C4_Witness ==
    /\ nWrites = MaxWrites
    /\ badWrites = 0
    /\ lastWrite.len = 0
    /\ stalls > 0
    /\ okBytes >= MaxLen
    /\ compLog # NoneR
    /\ compLog.res.tag = "Ok"
    /\ samples = <<[bytes |-> okBytes, op |-> "put_object"]>>

Invokes == { i \in 1..Len(gateLog) : gateLog[i].op = "invoke" }

\* what the box holds before call i, read off the calls made before it
HeldBefore(i) ==
    IF i > 1 /\ gateLog[i - 1].op = "set" THEN gateLog[i - 1].arg ELSE NoCallback

\* C5: on a ReviewCallbackBox, an invoke that follows a set returns the
\* result of the callback that set stored and empties the box; an invoke on
\* an empty box (never set, or emptied by an earlier invoke) returns false,
\* calls no callback and does not panic.
C5_ReviewGateSingleUse ==
    /\ \A i \in Invokes :
          /\ gateLog[i].called = (HeldBefore(i) # NoCallback)
          /\ gateLog[i].result =
                (HeldBefore(i) # NoCallback /\ Call(HeldBefore(i), gateLog[i].arg))
    /\ (gateLog # <<>> /\ Last(gateLog).op = "invoke") =>
          review_callback = NoCallback /\ ~panicked

\* set, an invoke that returns the callback's true, then a second invoke
\* that returns false without a call
C5_Witness ==
    /\ Len(gateLog) = 3
    /\ gateLog[1].op = "set" /\ gateLog[1].arg = "check"
    /\ gateLog[2].op = "invoke" /\ gateLog[2].arg = 1 /\ gateLog[2].result
    /\ gateLog[3].op = "invoke" /\ gateLog[3].arg = 1 /\ ~gateLog[3].result
    /\ ~gateLog[3].called
    /\ ~panicked

\* C6: review_and_complete (and complete) called in PendingWrite returns
\* RequestCanceled at once: the review callback is not set, no final write is
\* made and no throughput sample is emitted.
C6_CompleteInPendingWrite ==
    (compLog # NoneR /\ compLog.observed = "PendingWrite") =>
        /\ compLog.res = Err(RequestCanceled)
        /\ pc = "done"
        /\ review_callback = NoCallback
        /\ gateLog = <<>>
        /\ compLog.finalWrites = 0
        /\ ~eos
        /\ samples = <<>>

\* complete was called after a write had been dropped
C6_Witness ==
    /\ compLog # NoneR
    /\ compLog.via = "complete"
    /\ compLog.observed = "PendingWrite"
    /\ lastWrite.res = Dropped
    /\ compLog.res = Err(RequestCanceled)

\* C7: in every execution in which review_and_complete returns an error,
\* including a missing or malformed ETag header, no throughput sample is
\* emitted; at most one sample is emitted.
C7_NoSampleOnError ==
    /\ Len(samples) <= 1
    /\ (compLog # NoneR /\ compLog.res.tag = "Err") => samples = <<>>

\* C8: when the callback given to review_and_complete answers false to the
\* review the meta-request runs after the final write, the box was invoked
\* exactly once, review_and_complete does not return a result and no
\* throughput sample is emitted.
C8_ReviewVeto ==
    \A i \in Invokes :
        (compLog # NoneR /\ ~Call(compLog.callback, gateLog[i].arg)) =>
            /\ Invokes = {i}
            /\ gateLog[i].called
            /\ ~gateLog[i].result
            /\ review = "rejected"
            /\ meta_request.status # "succeeded"
            /\ compLog.res.tag \in {"Pending", "Err"}
            /\ pc = "done" => compLog.res.tag = "Err"
            /\ samples = <<>>

\* bytes were written, the callback vetoed, and review_and_complete
\* returned the failure of the aborted meta-request
C8_Witness ==
    /\ compLog # NoneR
    /\ compLog.via = "review_and_complete"
    /\ compLog.callback = "reject"
    /\ total_bytes > 0
    /\ Cardinality(Invokes) = 1
    /\ review = "rejected"
    /\ pc = "done"
    /\ compLog.res.tag = "Err"
    /\ compLog.res.err.kind = "CrtError"
    /\ compLog.res.err.code \in FailureCodes

\* C9: once a successful CreateMultipartUpload report or the result callback
\* has run, a first write that waits on the channel stops waiting: it
\* receives the value (or its future, and the receiver with it, is dropped).
C9_ReadinessWaitEnds ==
    (pc = "write_await" /\ firstSignal.kind # "none")
        ~> (pc # "write_await" /\ rx \in {"taken", "dropped"})

\* the result callback ran before the first write looked at the channel,
\* and that write is about to receive the failure
C9_Witness ==
    /\ pc = "write_await"
    /\ firstSignal.kind = "failed"
    /\ created = 0
    /\ mpu_created = Err(CrtError(firstSignal.code))

\* the previous write returned a transport error
AfterTransportError ==
    /\ lastWrite # NoneR
    /\ lastWrite.prev.tag = "Err"
    /\ lastWrite.prev.err.kind = "CrtError"

\* C10 as stated: after a write returned a transport error, the next write
\* is not rejected with RequestCanceled and reaches the meta-request write.
C10_Original ==
    AfterTransportError =>
        /\ lastWrite.res # Err(RequestCanceled)
        /\ (lastWrite.len > 0 /\ lastWrite.res.tag # "Pending") => lastWrite.prims > 0

\* C10 as amended: after a write returned a transport error the state is
\* still PendingWrite, and the next write is rejected with RequestCanceled
\* without a meta-request write and without a change of the byte counter.
C10_FailedWriteBlocksLater ==
    AfterTransportError =>
        /\ lastWrite.observed = "PendingWrite"
        /\ lastWrite.res = Err(RequestCanceled)
        /\ lastWrite.prims = 0
        /\ lastWrite.bytesAfter = lastWrite.bytesBefore
        /\ state = "PendingWrite"

\* a write failed in its loop on a finished meta-request, and the next
\* write was rejected
C10_Witness ==
    /\ AfterTransportError
    /\ lastWrite.prev = Err(CrtError(FinishedCode))
    /\ lastWrite.len > 0
    /\ lastWrite.res = Err(RequestCanceled)

\* C11: the state is always one of CreatingMPU, PendingWrite and Idle; the
\* session is in CreatingMPU exactly until the first call of write, whether
\* that write then succeeds, fails or is still running, and never again; and
\* only the first write awaits the readiness channel, whose receiver is
\* consumed by that await.
C11_StateLinear ==
    /\ state \in {"CreatingMPU", "PendingWrite", "Idle"}
    /\ state = "CreatingMPU" <=> nWrites = 0
    /\ rx = "held" => nWrites = 0
    /\ pc = "write_await" => nWrites = 1 /\ rx = "awaited"
    /\ rx = "awaited" => pc = "write_await"
    /\ (lastWrite # NoneR /\ lastWrite.observed = "CreatingMPU") <=> nWrites = 1
    /\ readyResult # NoneR => rx = "taken"

\* the first write failed on the readiness channel, a later write and a
\* completion were then made
C11_Witness ==
    /\ nWrites = MaxWrites
    /\ readyResult.tag = "Err"
    /\ lastWrite.observed = "PendingWrite"
    /\ state = "PendingWrite"
    /\ compLog # NoneR

\* C12: the checksum configuration of the request message is the one its
\* policy selects: Enabled gives the trailing CRC32C configuration, ReviewOnly
\* the upload-review CRC32C configuration, Disabled none; it is set when the
\* request is made and is the same in every later state, whatever was written
\* or completed.
C12_ChecksumPolicy ==
    /\ trailing_checksums \in {"Enabled", "ReviewOnly", "Disabled"}
    /\ trailing_checksums = "Enabled" => checksum_config = Ok("trailing_crc32c")
    /\ trailing_checksums = "ReviewOnly" => checksum_config = Ok("upload_review_crc32c")
    /\ trailing_checksums = "Disabled" => checksum_config = NoneR

\* a ReviewOnly request after its writes and a successful completion
C12_Witness ==
    /\ trailing_checksums = "ReviewOnly"
    /\ checksum_config = Ok("upload_review_crc32c")
    /\ nWrites = MaxWrites
    /\ total_bytes > 0
    /\ compLog # NoneR
    /\ compLog.res.tag = "Ok"

\* C13: when the meta-request succeeded and review_and_complete returned, its
\* value comes from the headers first given to on_headers and from nothing
\* else: with no usable ETag header it is InternalError; an UploadResult
\* carries exactly that ETag, never an empty one, and the two SSE fields are
\* the optional header values; and with a usable ETag and readable SSE
\* headers an UploadResult is what it returns.
C13_ResultFromHeaders ==
    /\ (compLog # NoneR /\ compLog.res.tag = "Ok") =>
          /\ meta_request.status = "succeeded"
          /\ headersSeen # NoneR
    /\ (compLog # NoneR /\ pc = "done" /\ meta_request.status = "succeeded"
          /\ ~panicked /\ compLog.res # Err(RequestCanceled)) =>
          /\ headersSeen # NoneR
          /\ LET h == headersSeen.first
                 res == compLog.res
             IN  /\ res.tag \in {"Ok", "Err"}
                 /\ res.tag = "Err" => res = Err(InternalError)
                 /\ h.etag \in {Absent, Invalid} => res = Err(InternalError)
                 /\ res.tag = "Ok" =>
                       /\ res.val.etag = h.etag
                       /\ res.val.etag \notin {Absent, Invalid, ""}
                       /\ res.val.sse_type = h.sse
                       /\ res.val.sse_kms_key_id = h.key
                 /\ (h.etag \notin {Absent, Invalid} /\ h.sse # Invalid /\ h.key # Invalid)
                       => res.tag = "Ok"

\* the meta-request succeeded, its response carried no ETag header, and
\* review_and_complete returned InternalError
C13_Witness ==
    /\ compLog # NoneR
    /\ pc = "done"
    /\ meta_request.status = "succeeded"
    /\ headersSeen # NoneR
    /\ headersSeen.first.etag = Absent
    /\ compLog.res = Err(InternalError)

\* C14: under every interleaving of the two callbacks at most one value is
\* ever sent on the readiness channel; the shared slot holds the sender
\* exactly until that send; the value is that of the callback that ran
\* first, Ok(()) for a successful CreateMultipartUpload report and the error
\* of the meta-request for the result callback; and the telemetry callback
\* sends only for a CreateMultipartUpload that completed without error.
C14_ReadinessResolvedOnce ==
    /\ Len(sent) <= 1
    /\ on_mpu_created_sender <=> sent = <<>>
    /\ firstSignal.kind = "none" <=> sent = <<>>
    /\ firstSignal.kind = "created" =>
          sent = <<[by |-> "telemetry", type |-> "CreateMultipartUpload",
                    failed |-> FALSE, value |-> Ok(Unit)]>>
    /\ firstSignal.kind = "failed" =>
          sent = <<[by |-> "result", type |-> "-", failed |-> TRUE,
                    value |-> Err(CrtError(firstSignal.code))]>>
    /\ \A i \in 1..Len(sent) :
          sent[i].by = "telemetry" =>
              sent[i].type = "CreateMultipartUpload" /\ ~sent[i].failed
    /\ mpu_created # NoneR => sent # <<>> /\ mpu_created = sent[1].value
    /\ (sent # <<>> /\ rx = "held") => mpu_created = sent[1].value

\* both callbacks have run, the result callback first, and one value was
\* sent
C14_Witness ==
    /\ created > 0
    /\ failures > 0
    /\ firstSignal.kind = "failed"
    /\ Len(sent) = 1
    /\ sent[1].by = "result"
    /\ ~on_mpu_created_sender

Sets == { i \in 1..Len(gateLog) : gateLog[i].op = "set" }

\* C15: in a session the review gate is armed at most once, on an empty
\* gate, and before the end-of-stream write is attempted: whenever that write
\* has been made the gate was armed first with the callback of the call, and
\* while it is still to be made the gate holds that callback. The transport,
\* which asks for the review only after end-of-stream, asks once and finds
\* the callback in the gate.
C15_GateArmedBeforeEos ==
    /\ Sets \subseteq {1}
    /\ \A i \in Sets : gateLog[i].result /\ gateLog[i].stored = NoCallback
    /\ (compLog # NoneR /\ compLog.finalWrites > 0) =>
          Sets = {1} /\ gateLog[1].arg = compLog.callback
    /\ eos => Sets = {1}
    /\ pc = "complete_eos" =>
          /\ gateLog = <<[op |-> "set", stored |-> NoCallback,
                          arg |-> compLog.callback, called |-> FALSE,
                          result |-> TRUE]>>
          /\ review_callback = compLog.callback
          /\ ~eos
          /\ compLog.finalWrites = 0
    /\ Invokes \subseteq {2}
    /\ \A i \in Invokes :
          /\ eos
          /\ gateLog[i].called
          /\ gateLog[i].stored = compLog.callback
          /\ gateLog[i].result = Call(compLog.callback, gateLog[i].arg)

\* review_and_complete armed the gate, sent end-of-stream, and the transport
\* then ran the review, which found the callback and accepted
C15_Witness ==
    /\ compLog # NoneR
    /\ compLog.via = "review_and_complete"
    /\ compLog.callback = "check"
    /\ eos
    /\ Len(gateLog) = 2
    /\ gateLog[2].op = "invoke"
    /\ gateLog[2].called
    /\ gateLog[2].result
    /\ review = "accepted"
    /\ pc = "complete_body"

\* C16: a set on a box that holds a callback panics and nothing runs after
\* it; a set on an empty box, whether never armed or emptied by an invoke,
\* does not panic and leaves its callback in the box.
C16_SetTwicePanics ==
    /\ \A i \in Sets :
          /\ gateLog[i].stored = HeldBefore(i)
          /\ gateLog[i].result <=> HeldBefore(i) = NoCallback
          /\ ~gateLog[i].result => i = Len(gateLog)
    /\ panicked <=> \E i \in Sets : ~gateLog[i].result
    /\ (gateLog # <<>> /\ Last(gateLog).op = "set" /\ Last(gateLog).result) =>
          /\ ~panicked
          /\ review_callback = Last(gateLog).arg

\* a set, the invoke that emptied the box, a second set that was accepted,
\* and a third set that panicked
C16_Witness ==
    /\ Len(gateLog) = 4
    /\ gateLog[1].op = "set" /\ gateLog[1].result
    /\ gateLog[2].op = "invoke" /\ gateLog[2].called
    /\ gateLog[3].op = "set" /\ gateLog[3].result
    /\ gateLog[4].op = "set" /\ ~gateLog[4].result
    /\ panicked

\* the slice given to the latest write, and what the meta-request has
\* accepted of it
Submitted == [i \in 1..lastWrite.len |-> nextByte - lastWrite.len + i - 1]
AcceptedOfLast ==
    SubSeq(delivered, lastWrite.bytesBefore + 1, Len(delivered))

\* C17: the bytes the meta-request accepted are, in order and without
\* repetition, bytes of the submitted slices in the order of submission, and
\* bytes_written() counts them. While a write is in its loop, what was
\* accepted of its slice followed by the suffix it submits next is the
\* slice; when it returns Ok the whole slice was accepted once, in order. At
\* every step the accepted bytes only grow at the end and the counter grows
\* by exactly the number of bytes accepted in that step.
C17_InOrderExactlyOnce ==
    /\ [](/\ \A i, j \in 1..Len(delivered) : i < j => delivered[i] < delivered[j]
          /\ total_bytes = Len(delivered)
          /\ lastWrite # NoneR =>
                /\ lastWrite.bytesBefore <= Len(delivered)
                /\ pc \in {"write_await", "write_loop"} =>
                      AcceptedOfLast \o slice = Submitted
                /\ lastWrite.res = Ok(Unit) => AcceptedOfLast = Submitted
                /\ lastWrite.res.tag \in {"Err", "Dropped"} =>
                      /\ Len(AcceptedOfLast) <= lastWrite.len
                      /\ AcceptedOfLast = Prefix(Submitted, Len(AcceptedOfLast)))
    /\ [][ /\ Len(delivered') >= Len(delivered)
           /\ Prefix(delivered', Len(delivered)) = delivered
           /\ total_bytes' = total_bytes + (Len(delivered') - Len(delivered))
           /\ Len(delivered') > Len(delivered) =>
                 /\ pc = "write_loop"
                 /\ Suffix(delivered', Len(delivered))
                      = Prefix(slice, Len(delivered') - Len(delivered)) ]_vars

\* two writes of MaxLen bytes, each accepted one byte at a time, both Ok
C17_Witness ==
    /\ nWrites = 2
    /\ lastWrite # NoneR
    /\ lastWrite.res = Ok(Unit)
    /\ lastWrite.prev = Ok(Unit)
    /\ lastWrite.len = MaxLen
    /\ lastWrite.prims = MaxLen
    /\ lastWrite.bytesBefore = MaxLen
    /\ Len(delivered) = 2 * MaxLen
    /\ pc = "idle"

\* C18: a write that returned an error took nothing back from the byte
\* counter: rejected by the state guard, it made no meta-request write and
\* bytes_written() is what it was before the call; failed on the readiness
\* channel or in its loop, bytes_written() is what it was before the call
\* plus the bytes the meta-request accepted before the error. No write sends
\* end-of-stream: it is sent only by a completion, and never after a write
\* that returned an error.
C18_NoRollback ==
    /\ (lastWrite # NoneR /\ lastWrite.res.tag = "Err") =>
          /\ lastWrite.res = Err(RequestCanceled) =>
                /\ lastWrite.prims = 0
                /\ lastWrite.bytesAfter = lastWrite.bytesBefore
                /\ AcceptedOfLast = <<>>
          /\ lastWrite.bytesAfter = lastWrite.bytesBefore + Len(AcceptedOfLast)
          /\ total_bytes = lastWrite.bytesAfter
          /\ ~eos
    /\ eos => compLog # NoneR /\ compLog.finalWrites > 0

\* the second write had one of its two bytes accepted when the meta-request
\* failed, and returned the error of its next meta-request write
C18_Witness ==
    /\ lastWrite # NoneR
    /\ lastWrite.res = Err(CrtError(FinishedCode))
    /\ lastWrite.len = 2
    /\ lastWrite.bytesBefore > 0
    /\ lastWrite.bytesAfter = lastWrite.bytesBefore + 1
    /\ total_bytes = lastWrite.bytesAfter
    /\ pc = "idle"

\* C19: once the future of a write was dropped before it resolved, whether
\* it was waiting for readiness or in its loop, the state is PendingWrite for
\* good; every write called afterwards returns RequestCanceled, a completion
\* called afterwards returns RequestCanceled without arming the gate, and the
\* meta-request receives no further byte and no end-of-stream.
C19_DroppedWriteCancelsAll ==
    dropLog # NoneR =>
        /\ state = "PendingWrite"
        /\ pc \in {"idle", "done"}
        /\ delivered = dropLog.delivered
        /\ total_bytes = dropLog.total
        /\ ~eos
        /\ lastWrite.res \in {Dropped, Err(RequestCanceled)}
        /\ lastWrite.res = Err(RequestCanceled) =>
              /\ lastWrite.observed = "PendingWrite"
              /\ lastWrite.prims = 0
              /\ lastWrite.prev \in {Dropped, Err(RequestCanceled)}
        /\ compLog # NoneR =>
              /\ pc = "done"
              /\ compLog.observed = "PendingWrite"
              /\ compLog.res = Err(RequestCanceled)
              /\ compLog.finalWrites = 0
              /\ gateLog = <<>>

\* a write was dropped in its loop after part of its slice was accepted; the
\* next write and then review_and_complete were both rejected
C19_Witness ==
    /\ dropLog # NoneR
    /\ dropLog.total > 0
    /\ lastWrite.prev = Dropped
    /\ lastWrite.len > 0
    /\ lastWrite.res = Err(RequestCanceled)
    /\ compLog # NoneR
    /\ compLog.via = "review_and_complete"
    /\ compLog.res = Err(RequestCanceled)

\* C20: the completion channel holds nothing until on_headers is first
\* invoked and from then on the headers of that first invocation, whatever
\* later invocations bring; the sender is gone after the first invocation;
\* and what review_and_complete returns after a successful meta-request is
\* extracted from those first headers.
C20_FirstHeadersOnly ==
    /\ headerCalls = 0 <=> headersSeen = NoneR
    /\ headersSeen = NoneR => response_headers = NoneR /\ response_headers_sender
    /\ headersSeen # NoneR =>
          /\ response_headers = Ok(headersSeen.first)
          /\ ~response_headers_sender
    /\ (compLog # NoneR /\ compLog.res.tag = "Ok") =>
          /\ headersSeen # NoneR
          /\ compLog.res = extract_result(headersSeen.first)
    /\ (compLog # NoneR /\ compLog.res = Err(InternalError)) =>
          /\ headersSeen # NoneR
          /\ extract_result(headersSeen.first) = Err(InternalError)

\* on_headers was invoked MaxHeaders times, not always with the same
\* headers, and the completion returned the result of the first ones
C20_Witness ==
    /\ headerCalls = MaxHeaders
    /\ headersSeen # NoneR
    /\ headersSeen.differs
    /\ pc = "done"
    /\ compLog # NoneR
    /\ compLog.res.tag = "Ok"
    /\ compLog.res.val.etag = headersSeen.first.etag

\* C21: a completion called while the state is CreatingMPU, no write having
\* been called, is not rejected and never touches the readiness channel: it
\* arms the gate with its callback and goes on to the end-of-stream write
\* without the receiver being awaited or read. When the meta-request has
\* failed, the completion returns a CrtError: that of the end-of-stream write
\* when the failure came before it, otherwise the error of the meta-request
\* from the body future.
C21_CompleteBeforeAnyWrite ==
    (compLog # NoneR /\ compLog.observed = "CreatingMPU") =>
        /\ nWrites = 0
        /\ state = "CreatingMPU"
        /\ compLog.res # Err(RequestCanceled)
        /\ pc \in {"complete_eos", "complete_body", "done"}
        /\ rx \in {"held", "dropped"}
        /\ readyResult = NoneR
        /\ gateLog # <<>>
        /\ gateLog[1] = [op |-> "set", stored |-> NoCallback,
                         arg |-> compLog.callback, called |-> FALSE,
                         result |-> TRUE]
        /\ pc # "complete_eos" => compLog.finalWrites = 1
        /\ pc = "complete_body" => eos
        /\ (pc = "done" /\ meta_request.status = "failed") =>
              IF eos
              THEN compLog.res = Err(CrtError(meta_request.error))
              ELSE compLog.res = Err(CrtError(FinishedCode))

\* complete was called before any write and sent end-of-stream; the
\* meta-request then failed, the failure went into the readiness channel,
\* which nobody read, and complete returned it from the body future
C21_Witness ==
    /\ compLog # NoneR
    /\ compLog.via = "complete"
    /\ compLog.observed = "CreatingMPU"
    /\ pc = "done"
    /\ eos
    /\ firstSignal.kind = "failed"
    /\ mpu_created = Err(CrtError(firstSignal.code))
    /\ readyResult = NoneR
    /\ compLog.res = Err(CrtError(firstSignal.code))

\* C22: a write of an empty slice makes no meta-request write, has nothing
\* accepted and leaves bytes_written() as it was. Called in PendingWrite it
\* returns RequestCanceled; called in Idle it returns Ok at once; called as
\* the first write it awaits the readiness channel and returns what the
\* channel holds, Ok or the failure. When it returned Ok the state is Idle
\* until the next call.
C22_EmptyWrite ==
    (lastWrite # NoneR /\ lastWrite.len = 0) =>
        /\ lastWrite.prims = 0
        /\ lastWrite.bytesAfter = lastWrite.bytesBefore
        /\ total_bytes = lastWrite.bytesBefore
        /\ AcceptedOfLast = <<>>
        /\ pc # "write_loop"
        /\ lastWrite.observed = "PendingWrite" <=> lastWrite.res = Err(RequestCanceled)
        /\ lastWrite.observed = "Idle" => lastWrite.res = Ok(Unit)
        /\ lastWrite.observed = "CreatingMPU" =>
              /\ lastWrite.res = Pending <=> pc = "write_await"
              /\ lastWrite.res = Pending => rx = "awaited" /\ state = "PendingWrite"
              /\ lastWrite.res \notin {Pending, Dropped} =>
                    /\ rx = "taken"
                    /\ lastWrite.res = readyResult
              /\ lastWrite.res.tag = "Err" => state = "PendingWrite"
        /\ lastWrite.res = Dropped => lastWrite.observed = "CreatingMPU"
        /\ lastWrite.res = Ok(Unit) => state = "Idle"

\* the first write of the session was empty, waited for readiness and
\* returned the failure of the meta-request
C22_Witness ==
    /\ nWrites = 1
    /\ lastWrite # NoneR
    /\ lastWrite.len = 0
    /\ lastWrite.observed = "CreatingMPU"
    /\ firstSignal.kind = "failed"
    /\ lastWrite.res = Err(CrtError(firstSignal.code))
    /\ rx = "taken"
    /\ total_bytes = 0
    /\ pc = "idle"

\* C23: a write that is in its loop comes out of it: it returns Ok with the
\* state Idle, or returns the error of a meta-request write, unless its
\* future is dropped first; this when every meta-request write returns and
\* only boundedly many of them consume nothing. The loop itself counts
\* nothing: a meta-request write that returns the whole slice without error
\* leaves the write in its loop, in PendingWrite, with the same slice and
\* the same byte counter.
C23_WriteLoopTerminates ==
    /\ (pc = "write_loop")
          ~> (/\ pc # "write_loop"
              /\ lastWrite # NoneR
              /\ \/ lastWrite.res = Ok(Unit) /\ state = "Idle"
                 \/ lastWrite.res = Err(CrtError(FinishedCode))
                 \/ lastWrite.res = Dropped)
    /\ [](pc = "write_loop" => state = "PendingWrite" /\ slice # <<>>)
    /\ [][ stalls' = stalls + 1 =>
             /\ pc = "write_loop"
             /\ pc' = "write_loop"
             /\ state' = "PendingWrite"
             /\ slice' = slice
             /\ delivered' = delivered
             /\ total_bytes' = total_bytes
             /\ lastWrite'.res = Pending
             /\ lastWrite'.prims = lastWrite.prims + 1 ]_vars

\* the first write got past the readiness channel, had a meta-request write
\* consume nothing MaxStalls times, went on and returned Ok
C23_Witness ==
    /\ nWrites = 1
    /\ lastWrite # NoneR
    /\ lastWrite.observed = "CreatingMPU"
    /\ stalls = MaxStalls
    /\ lastWrite.len = MaxLen
    /\ lastWrite.prims = MaxStalls + MaxLen
    /\ lastWrite.res = Ok(Unit)
    /\ state = "Idle"
    /\ pc = "idle"

====
